---- MODULE Spec2Model ----
(***************************************************************************)
(* A model of loader.py: the wide-CSV to relational loader.  The store is  *)
(* the three tables of DDL (devices, sensors, measurements) with their     *)
(* AUTO_INCREMENT counters; the program is main() looping process_csv()    *)
(* over the sorted glob, each store round-trip being one transaction.      *)
(*                                                                         *)
(* Strings are sequences of one-character strings, so that endswith,       *)
(* slicing, strip, lower, float() and sorted() are computed, not assumed.  *)
(* A number is [m, e], the decimal m * 10^-e in lowest terms.  A nullable  *)
(* value is a sequence of length at most one: << >> is None / NULL.        *)
(***************************************************************************)
EXTENDS Integers, Sequences, FiniteSets, TLC

(***************************************************************************)
(* Bounds of the model.                                                    *)
(***************************************************************************)
\* process_csv calls in one behaviour
MaxImports == 2
\* rows of the device preview (nrows=500 in the source), scaled to the files below
PREVIEW_ROWS == 2

(***************************************************************************)
(* Program constants.                                                      *)
(***************************************************************************)
\* CHUNK_SIZE = int(os.getenv("CHUNK_SIZE", "5000")): run here with CHUNK_SIZE=2
CHUNK_SIZE == 2
\* s[:255]
VALUE_TEXT_MAX == 255
\* str(st)[:50]
STATUS_MAX == 50
\* len("_status"), len("_value")
STATUS_SUFFIX_LEN == 7
VALUE_SUFFIX_LEN == 6

(***************************************************************************)
(* Strings.                                                                *)
(***************************************************************************)
None == << >>
Some(v) == << v >>

\* code points of the characters the inputs use
Ord(c) ==
  CASE c = " " -> 32 [] c = "+" -> 43 [] c = "-" -> 45 [] c = "." -> 46
    [] c = "/" -> 47
    [] c = "0" -> 48 [] c = "1" -> 49 [] c = "2" -> 50 [] c = "3" -> 51
    [] c = "4" -> 52 [] c = "5" -> 53 [] c = "6" -> 54 [] c = "7" -> 55
    [] c = "8" -> 56 [] c = "9" -> 57
    [] c = "A" -> 65 [] c = "E" -> 69 [] c = "K" -> 75 [] c = "N" -> 78
    [] c = "O" -> 79 [] c = "R" -> 82 [] c = "T" -> 84 [] c = "U" -> 85
    [] c = "W" -> 87
    [] c = "_" -> 95
    [] c = "a" -> 97 [] c = "b" -> 98 [] c = "c" -> 99 [] c = "d" -> 100
    [] c = "e" -> 101 [] c = "h" -> 104 [] c = "i" -> 105 [] c = "l" -> 108
    [] c = "m" -> 109 [] c = "n" -> 110 [] c = "o" -> 111 [] c = "s" -> 115
    [] c = "t" -> 116 [] c = "u" -> 117 [] c = "v" -> 118 [] c = "w" -> 119
    [] c = "x" -> 120

Digits == {"0", "1", "2", "3", "4", "5", "6", "7", "8", "9"}
DigitVal(c) == Ord(c) - Ord("0")
DigitChar(d) == CHOOSE c \in Digits : DigitVal(c) = d

\* a < b for Python strings: lexicographic by code point
RECURSIVE StrLess(_, _)
StrLess(a, b) ==
  IF b = << >> THEN FALSE
  ELSE IF a = << >> THEN TRUE
  ELSE IF Ord(Head(a)) # Ord(Head(b)) THEN Ord(Head(a)) < Ord(Head(b))
  ELSE StrLess(Tail(a), Tail(b))

\* sorted(S) for a set of strings
RECURSIVE Sorted(_)
Sorted(S) ==
  IF S = {} THEN << >>
  ELSE LET least == CHOOSE x \in S : \A y \in S \ {x} : StrLess(x, y)
       IN  << least >> \o Sorted(S \ {least})

\* c.endswith(suffix)
EndsWith(c, suffix) ==
  /\ Len(c) >= Len(suffix)
  /\ SubSeq(c, Len(c) - Len(suffix) + 1, Len(c)) = suffix

\* s[:n]
Prefix(s, n) == SubSeq(s, 1, IF Len(s) < n THEN Len(s) ELSE n)

\* s.strip(): the inputs' only whitespace is the blank
RECURSIVE LStrip(_)
LStrip(s) == IF s # << >> /\ Head(s) = " " THEN LStrip(Tail(s)) ELSE s
RECURSIVE RStrip(_)
RStrip(s) ==
  IF s # << >> /\ s[Len(s)] = " " THEN RStrip(SubSeq(s, 1, Len(s) - 1)) ELSE s
Strip(s) == RStrip(LStrip(s))

\* s.lower()
LowerChar(c) ==
  CASE c = "A" -> "a" [] c = "E" -> "e" [] c = "K" -> "k" [] c = "N" -> "n"
    [] c = "O" -> "o" [] c = "R" -> "r" [] c = "T" -> "t" [] c = "U" -> "u"
    [] c = "W" -> "w" [] OTHER -> c
Lower(s) == [i \in 1..Len(s) |-> LowerChar(s[i])]

(***************************************************************************)
(* Numbers: float(s), float(x) and str(x).                                 *)
(***************************************************************************)
RECURSIVE Normalize(_, _)
Normalize(m, e) ==
  IF m = 0 THEN [m |-> 0, e |-> 0]
  ELSE IF e > 0 /\ m % 10 = 0 THEN Normalize(m \div 10, e - 1)
  ELSE [m |-> m, e |-> e]

RECURSIVE DigitsToInt(_)
DigitsToInt(s) ==
  IF s = << >> THEN 0
  ELSE 10 * DigitsToInt(SubSeq(s, 1, Len(s) - 1)) + DigitVal(s[Len(s)])

AllDigits(s) == \A i \in 1..Len(s) : s[i] \in Digits

\* float("nan"): not a decimal, written as a number with the scale -1
NanNum == [m |-> 0, e |-> 0 - 1]

\* float(s) of a stripped string over the inputs' alphabet: [sign] digits [. digits]
\* or [sign] nan in any case; None stands for ValueError
ParseFloat(s) ==
  LET signed == s # << >> /\ Head(s) \in {"+", "-"}
      neg    == signed /\ Head(s) = "-"
      body   == IF signed THEN Tail(s) ELSE s
      dots   == {i \in 1..Len(body) : body[i] = "."}
      ip     == IF dots = {} THEN body
                ELSE SubSeq(body, 1, (CHOOSE i \in dots : TRUE) - 1)
      fp     == IF dots = {} THEN << >>
                ELSE SubSeq(body, (CHOOSE i \in dots : TRUE) + 1, Len(body))
      mag    == DigitsToInt(ip \o fp)
  IN  IF Lower(body) = << "n", "a", "n" >> THEN Some(NanNum)
      ELSE IF /\ Cardinality(dots) <= 1
              /\ AllDigits(ip) /\ AllDigits(fp)
              /\ Len(ip) + Len(fp) >= 1
      THEN Some(Normalize(IF neg THEN 0 - mag ELSE mag, Len(fp)))
      ELSE None

RECURSIVE NatToStr(_)
NatToStr(n) ==
  IF n < 10 THEN << DigitChar(n) >>
  ELSE NatToStr(n \div 10) \o << DigitChar(n % 10) >>

RECURSIVE PadLeft(_, _)
PadLeft(s, n) == IF Len(s) >= n THEN s ELSE PadLeft(<< "0" >> \o s, n)

\* str(x) of an int
IntToStr(n) == IF n < 0 THEN << "-" >> \o NatToStr(0 - n) ELSE NatToStr(n)

\* str(x) of a float in the plain decimal range: at least one fractional digit
FloatToStr(num) ==
  LET mag  == IF num.m < 0 THEN 0 - num.m ELSE num.m
      ds   == PadLeft(NatToStr(mag), num.e + 1)
      ip   == SubSeq(ds, 1, Len(ds) - num.e)
      fp   == IF num.e = 0 THEN << "0" >> ELSE SubSeq(ds, Len(ds) - num.e + 1, Len(ds))
  IN  (IF num.m < 0 THEN << "-" >> ELSE << >>) \o ip \o << "." >> \o fp

(***************************************************************************)
(* Cells as pandas hands them to the loop: None, a float (NaN for an empty *)
(* cell), an int, or a str.                                                *)
(***************************************************************************)
Zero == [m |-> 0, e |-> 0]
PyNone == [kind |-> "none", nan |-> FALSE, num |-> Zero, str |-> << >>]
NaN == [kind |-> "float", nan |-> TRUE, num |-> Zero, str |-> << >>]
PyFloat(m, e) == [kind |-> "float", nan |-> FALSE, num |-> Normalize(m, e), str |-> << >>]
PyInt(n) == [kind |-> "int", nan |-> FALSE, num |-> [m |-> n, e |-> 0], str |-> << >>]
PyStr(s) == [kind |-> "str", nan |-> FALSE, num |-> Zero, str |-> s]

\* str(x)
StrOf(x) ==
  CASE x.kind = "str" -> x.str
    [] x.kind = "int" -> IntToStr(x.num.m)
    [] x.kind = "float" -> IF x.nan THEN << "n", "a", "n" >> ELSE FloatToStr(x.num)
    [] x.kind = "none" -> << "N", "o", "n", "e" >>

\* try_float without the test for the "nan" literal
try_float_NoNanCheck(x) ==
  IF x.kind = "none" THEN << None, None >>
  ELSE IF x.kind = "float" /\ x.nan THEN << None, None >>
  ELSE IF x.kind \in {"int", "float"} THEN << Some(x.num), None >>
  ELSE LET s == Strip(StrOf(x))
       IN  IF s = << >> THEN << None, None >>
           ELSE IF ParseFloat(s) # None THEN << ParseFloat(s), None >>
           ELSE << None, Some(Prefix(s, VALUE_TEXT_MAX)) >>

\* try_float(x): <<value_double, value_text>>
try_float(x) ==
  IF x.kind = "none" THEN << None, None >>
  ELSE IF x.kind = "float" /\ x.nan THEN << None, None >>
  ELSE IF x.kind \in {"int", "float"} THEN << Some(x.num), None >>
  ELSE LET s == Strip(StrOf(x))
       IN  IF s = << >> \/ Lower(s) = << "n", "a", "n" >> THEN << None, None >>
           ELSE IF ParseFloat(s) # None THEN << ParseFloat(s), None >>
           ELSE << None, Some(Prefix(s, VALUE_TEXT_MAX)) >>

\* the status normalisation of process_csv
status_str(st) ==
  IF st.kind # "none" /\ ~(st.kind = "float" /\ st.nan)
  THEN Some(Prefix(StrOf(st), STATUS_MAX))
  ELSE None

(***************************************************************************)
(* Column names.                                                           *)
(***************************************************************************)
STATUS_SUFFIX == << "_", "s", "t", "a", "t", "u", "s" >>
VALUE_SUFFIX == << "_", "v", "a", "l", "u", "e" >>
COL_DEVICE_ID == << "d", "e", "v", "i", "c", "e", "_", "i", "d" >>
COL_DEVICE_NAME == << "d", "e", "v", "i", "c", "e", "_", "n", "a", "m", "e" >>
COL_TIME == << "t", "i", "m", "e" >>
\* a check that forgets device_name
required_NoName == {COL_DEVICE_ID, COL_TIME}

\* required = {"device_id", "device_name", "time"}
required == {COL_DEVICE_ID, COL_DEVICE_NAME, COL_TIME}

\* the bases in the order of their first column, without sorted()
find_sensor_bases_InputOrder(columns) ==
  LET base(c) == IF EndsWith(c, STATUS_SUFFIX)
                 THEN Some(SubSeq(c, 1, Len(c) - STATUS_SUFFIX_LEN))
                 ELSE IF EndsWith(c, VALUE_SUFFIX)
                 THEN Some(SubSeq(c, 1, Len(c) - VALUE_SUFFIX_LEN))
                 ELSE None
      firsts  == {i \in 1..Len(columns) :
                    /\ base(columns[i]) # None
                    /\ \A j \in 1..(i - 1) : base(columns[j]) # base(columns[i])}
      kth(k)  == CHOOSE i \in firsts : Cardinality({j \in firsts : j <= i}) = k
  IN  [k \in 1..Cardinality(firsts) |-> base(columns[kth(k)])[1]]

\* find_sensor_bases(columns)
find_sensor_bases(columns) ==
  LET bases ==
        {SubSeq(columns[i], 1, Len(columns[i]) - STATUS_SUFFIX_LEN) :
           i \in {j \in 1..Len(columns) : EndsWith(columns[j], STATUS_SUFFIX)}}
        \cup
        {SubSeq(columns[i], 1, Len(columns[i]) - VALUE_SUFFIX_LEN) :
           i \in {j \in 1..Len(columns) :
                    /\ ~EndsWith(columns[j], STATUS_SUFFIX)
                    /\ EndsWith(columns[j], VALUE_SUFFIX)}}
  IN  Sorted(bases)

(***************************************************************************)
(* Input files.  A time cell is [form, t]: the instant t written as        *)
(* "YYYY/MM/DD HH:MM:SS" (slash), the same without zero padding            *)
(* (slash_unpadded), as "YYYY-MM-DD HH:MM:SS" (dash), or not a time (junk).*)
(***************************************************************************)
TimeCell(form, t) == [form |-> form, t |-> t]

Col(base, suffix) == base \o suffix
BASE_T == << "t" >>
BASE_H == << "h" >>
T_VALUE == Col(BASE_T, VALUE_SUFFIX)
T_STATUS == Col(BASE_T, STATUS_SUFFIX)
H_VALUE == Col(BASE_H, VALUE_SUFFIX)
H_STATUS == Col(BASE_H, STATUS_SUFFIX)

D1 == PyStr(<< "d", "1" >>)
D2 == PyStr(<< "d", "2" >>)
NAME_ONE == PyStr(<< "O", "n", "e" >>)
NAME_UNO == PyStr(<< "U", "n", "o" >>)
NAME_TWO == PyStr(<< "T", "w", "o" >>)
OK == PyStr(<< "O", "K" >>)
ERR == PyStr(<< "E", "R", "R" >>)
WARN == PyStr(<< "W", "A", "R", "N" >>)

Row(dev, name, time, cells) ==
  [device_id |-> dev, device_name |-> name, time |-> time, cells |-> cells]

PATH_A == << "a", ".", "c", "s", "v" >>
PATH_B == << "b", ".", "c", "s", "v" >>
PATH_C == << "c", ".", "c", "s", "v" >>
PATH_D == << "d", ".", "c", "s", "v" >>
PATH_E == << "e", ".", "c", "s", "v" >>
Paths == {PATH_A, PATH_B, PATH_C, PATH_D, PATH_E}

\* a.csv: one sensor with both columns; the preview names device d1 twice, with two
\* names; rows 3 and 4, the second chunk, both repeat the instant of row 1
FILE_A ==
  [cols |-> << COL_DEVICE_ID, COL_DEVICE_NAME, COL_TIME, T_VALUE, T_STATUS >>,
   rows |-> <<
     Row(D1, NAME_ONE, TimeCell("slash", 1),
         (T_VALUE :> PyStr(<< "2", "1", ".", "5" >>)) @@ (T_STATUS :> OK)),
     Row(D1, NAME_UNO, TimeCell("slash", 2),
         (T_VALUE :> PyStr(<< "b", "a", "d" >>)) @@ (T_STATUS :> ERR)),
     Row(D1, NAME_ONE, TimeCell("slash_unpadded", 1),
         (T_VALUE :> PyStr(<< " ", "7", " " >>)) @@ (T_STATUS :> NaN)),
     Row(D1, NAME_ONE, TimeCell("slash", 1),
         (T_VALUE :> PyStr(<< "-", "0", ".", "5", "0" >>)) @@ (T_STATUS :> NaN)) >>]

\* b.csv: a.csv's first row with another status and device name, a status-only
\* sensor, a second chunk in which no time parses, and a third whose only row is
\* a.csv's second instant with every sensor cell empty
FILE_B ==
  [cols |-> << COL_DEVICE_ID, COL_DEVICE_NAME, COL_TIME, T_VALUE, T_STATUS, H_STATUS >>,
   rows |-> <<
     Row(D1, NAME_UNO, TimeCell("slash", 1),
         (T_VALUE :> PyFloat(215, 1)) @@ (T_STATUS :> WARN) @@ (H_STATUS :> NaN)),
     Row(D2, NAME_TWO, TimeCell("slash", 3),
         (T_VALUE :> NaN) @@ (T_STATUS :> NaN) @@ (H_STATUS :> OK)),
     Row(D2, NAME_TWO, TimeCell("dash", 2),
         (T_VALUE :> PyFloat(5, 0)) @@ (T_STATUS :> OK) @@ (H_STATUS :> OK)),
     Row(D1, NAME_UNO, TimeCell("junk", 2),
         (T_VALUE :> PyFloat(6, 0)) @@ (T_STATUS :> ERR) @@ (H_STATUS :> ERR)),
     Row(D1, NAME_UNO, TimeCell("slash", 2),
         (T_VALUE :> NaN) @@ (T_STATUS :> NaN) @@ (H_STATUS :> NaN)) >>]

\* c.csv: no device_name column
FILE_C ==
  [cols |-> << COL_DEVICE_ID, COL_TIME, T_VALUE >>,
   rows |-> <<
     Row(D1, NaN, TimeCell("slash", 1), (T_VALUE :> PyInt(4))) >>]

\* d.csv: value-only sensors, a row whose time does not parse next to one whose
\* time does, and a device that first appears after the preview
FILE_D ==
  [cols |-> << H_VALUE, COL_DEVICE_ID, COL_DEVICE_NAME, COL_TIME, T_VALUE >>,
   rows |-> <<
     Row(D1, NAME_ONE, TimeCell("slash", 2),
         (H_VALUE :> PyFloat(1, 0)) @@ (T_VALUE :> PyFloat(30, 1))),
     Row(D1, NAME_ONE, TimeCell("dash", 3),
         (H_VALUE :> PyFloat(7, 0)) @@ (T_VALUE :> NaN)),
     Row(D2, NAME_TWO, TimeCell("slash", 3),
         (H_VALUE :> PyFloat(2, 0)) @@ (T_VALUE :> NaN)) >>]

\* e.csv: a header with the identity columns alone, and no row
FILE_E ==
  [cols |-> << COL_DEVICE_ID, COL_DEVICE_NAME, COL_TIME >>,
   rows |-> << >>]

\* the content of the file at a path
File(path) ==
  CASE path = PATH_A -> FILE_A
    [] path = PATH_B -> FILE_B
    [] path = PATH_C -> FILE_C
    [] path = PATH_D -> FILE_D
    [] path = PATH_E -> FILE_E

(***************************************************************************)
(* pandas: timestamps, preview and chunks.                                 *)
(***************************************************************************)
\* pd.to_datetime without format=: the format is inferred, so the dash form parses too
to_datetime_Inferred(time) ==
  IF time.form \in {"slash", "slash_unpadded", "dash"} THEN Some(time.t) ELSE None

\* pd.to_datetime(time, format="%Y/%m/%d %H:%M:%S", errors="coerce"); None is NaT
to_datetime(time) ==
  IF time.form \in {"slash", "slash_unpadded"} THEN Some(time.t) ELSE None

\* strftime("%Y-%m-%d %H:%M:%S")
strftime(t) == TimeCell("dash", t)

\* pd.read_csv(csv_path, usecols=[device_id, device_name], nrows=500)
Preview(file) ==
  SubSeq(file.rows, 1, IF Len(file.rows) < PREVIEW_ROWS THEN Len(file.rows) ELSE PREVIEW_ROWS)

\* the set comprehension over preview.iterrows()
DevicePairs(file) ==
  {<< StrOf(Preview(file)[i].device_id), StrOf(Preview(file)[i].device_name) >> :
     i \in 1..Len(Preview(file))}

\* the chunks pd.read_csv(csv_path, chunksize=CHUNK_SIZE) yields
NumChunks(file) == (Len(file.rows) + CHUNK_SIZE - 1) \div CHUNK_SIZE
Chunk(file, n) ==
  SubSeq(file.rows, (n - 1) * CHUNK_SIZE + 1,
         IF Len(file.rows) < n * CHUNK_SIZE THEN Len(file.rows) ELSE n * CHUNK_SIZE)

\* chunk.dropna(subset=["timestamp"])
RECURSIVE DropNaT(_)
DropNaT(chunk) ==
  IF chunk = << >> THEN << >>
  ELSE IF to_datetime(Head(chunk).time) = None THEN DropNaT(Tail(chunk))
  ELSE << Head(chunk) >> \o DropNaT(Tail(chunk))

(***************************************************************************)
(* The unpivot loops of process_csv.                                       *)
(***************************************************************************)
Tuple(dev, sid, ts, vd, vt, st) ==
  [device_id |-> dev, sensor_id |-> sid, timestamp |-> ts,
   value_double |-> vd, value_text |-> vt, status |-> st]

\* chunk[col].tolist()[i] if col in chunk.columns else None
CellOf(row, col, columns) ==
  IF \E i \in 1..Len(columns) : columns[i] = col THEN row.cells[col] ELSE PyNone

\* the inner loop without "Skip totally empty readings"
RECURSIVE BaseRows_NoSkip(_, _, _, _)
BaseRows_NoSkip(chunk, base, sid, columns) ==
  IF chunk = << >> THEN << >>
  ELSE LET row == Head(chunk)
           v   == CellOf(row, Col(base, VALUE_SUFFIX), columns)
           st  == CellOf(row, Col(base, STATUS_SUFFIX), columns)
       IN  << Tuple(StrOf(row.device_id), sid, strftime(to_datetime(row.time)[1]),
                    try_float(v)[1], try_float(v)[2], status_str(st)) >>
             \o BaseRows_NoSkip(Tail(chunk), base, sid, columns)

\* the inner loop: the tuples of one base over the rows of the chunk
RECURSIVE BaseRows(_, _, _, _)
BaseRows(chunk, base, sid, columns) ==
  IF chunk = << >> THEN << >>
  ELSE LET row == Head(chunk)
           v   == CellOf(row, Col(base, VALUE_SUFFIX), columns)
           st  == CellOf(row, Col(base, STATUS_SUFFIX), columns)
           vd  == try_float(v)[1]
           vt  == try_float(v)[2]
           ss  == status_str(st)
           rest == BaseRows(Tail(chunk), base, sid, columns)
       IN  IF vd = None /\ vt = None /\ ss = None THEN rest
           ELSE << Tuple(StrOf(row.device_id), sid,
                         strftime(to_datetime(row.time)[1]), vd, vt, ss) >> \o rest

\* the loops nested the other way round: for each row, for each base
RECURSIVE RowTuples_RowMajor(_, _, _, _)
RowTuples_RowMajor(row, bases, id_map, columns) ==
  IF bases = << >> THEN << >>
  ELSE IF Head(bases) \notin DOMAIN id_map
       THEN RowTuples_RowMajor(row, Tail(bases), id_map, columns)
       ELSE BaseRows(<< row >>, Head(bases), id_map[Head(bases)], columns)
              \o RowTuples_RowMajor(row, Tail(bases), id_map, columns)

RECURSIVE Unpivot_RowMajor(_, _, _, _)
Unpivot_RowMajor(chunk, bases, id_map, columns) ==
  IF chunk = << >> THEN << >>
  ELSE RowTuples_RowMajor(Head(chunk), bases, id_map, columns)
         \o Unpivot_RowMajor(Tail(chunk), bases, id_map, columns)

\* the outer loop: for base in sensor_bases
RECURSIVE Unpivot(_, _, _, _)
Unpivot(chunk, bases, id_map, columns) ==
  IF bases = << >> THEN << >>
  ELSE IF Head(bases) \notin DOMAIN id_map
       THEN Unpivot(chunk, Tail(bases), id_map, columns)
       ELSE BaseRows(chunk, Head(bases), id_map[Head(bases)], columns)
              \o Unpivot(chunk, Tail(bases), id_map, columns)

(***************************************************************************)
(* The store: the tables of DDL.  devices maps device_id to device_name;   *)
(* sensors and measurements are sets of rows; the *_auto variables are the *)
(* AUTO_INCREMENT counters, which InnoDB does not restore on rollback.     *)
(***************************************************************************)
VARIABLES devices, sensors, sensors_auto, measurements, measurements_auto

(***************************************************************************)
(* main() and process_csv(): pc is the next step, csv_files the sorted     *)
(* glob, file_no the position of the for loop, error the exception that    *)
(* ended the last run of main (None if none), and the locals of            *)
(* process_csv.                                                            *)
(***************************************************************************)
VARIABLES pc, csv_files, file_no, error,
          cols, sensor_bases, device_pairs, sensor_id_map, chunk_no, out_rows

(***************************************************************************)
(* History: imports counts the process_csv calls, started is the store at  *)
(* the entry of the current call, commits the batches it has committed,    *)
(* and log the records of the last two calls that ended.                   *)
(***************************************************************************)
VARIABLES imports, started, commits, log

(***************************************************************************)
(* A call of one of the pure helpers on its own: arg is the argument and   *)
(* ret the returned value.  main() leaves both alone.                      *)
(***************************************************************************)
VARIABLES arg, ret

store_vars == << devices, sensors, sensors_auto, measurements, measurements_auto >>
main_vars == << pc, csv_files, file_no, error >>
local_vars == << cols, sensor_bases, device_pairs, sensor_id_map, chunk_no, out_rows >>
hist_vars == << imports, started, commits, log >>
call_vars == << arg, ret >>
vars == << store_vars, main_vars, local_vars, hist_vars, call_vars >>

Store ==
  [devices |-> devices, sensors |-> sensors, sensors_auto |-> sensors_auto,
   measurements |-> measurements, measurements_auto |-> measurements_auto]

(***************************************************************************)
(* The statements, one row at a time.                                      *)
(***************************************************************************)
\* INSERT INTO devices ... ON DUPLICATE KEY UPDATE device_name = VALUES(device_name)
UpsertDevice(tbl, pair) ==
  [d \in DOMAIN tbl \cup {pair[1]} |-> IF d = pair[1] THEN pair[2] ELSE tbl[d]]

RECURSIVE ExecDevices(_, _)
ExecDevices(tbl, pairs) ==
  IF pairs = << >> THEN tbl
  ELSE ExecDevices(UpsertDevice(tbl, Head(pairs)), Tail(pairs))

\* REPLACE INTO sensors: a known name is deleted and inserted again
InsertIgnoreSensor_Replace(db, name) ==
  [rows |-> {r \in db.rows : r.sensor_name # name}
              \cup {[sensor_id |-> db.auto, sensor_name |-> name]},
   auto |-> db.auto + 1]

\* INSERT IGNORE INTO sensors (sensor_name) VALUES (%s); db is [rows, auto]
InsertIgnoreSensor(db, name) ==
  IF \E r \in db.rows : r.sensor_name = name THEN db
  ELSE [rows |-> db.rows \cup {[sensor_id |-> db.auto, sensor_name |-> name]},
        auto |-> db.auto + 1]

RECURSIVE ExecSensors(_, _)
ExecSensors(db, names) ==
  IF names = << >> THEN db
  ELSE ExecSensors(InsertIgnoreSensor(db, Head(names)), Tail(names))

\* a UNIQUE KEY that also covers the status column
SameKey_WithStatus(r, t) ==
  /\ r.device_id = t.device_id
  /\ r.sensor_id = t.sensor_id
  /\ r.timestamp = t.timestamp
  /\ r.status = t.status

\* UNIQUE KEY uq_measurement (device_id, sensor_id, timestamp)
SameKey(r, t) ==
  /\ r.device_id = t.device_id
  /\ r.sensor_id = t.sensor_id
  /\ r.timestamp = t.timestamp

\* a schema without the FOREIGN KEY constraints
ForeignKeysHold_Unchecked(t, devs, sens) == TRUE

\* the FOREIGN KEY constraints of measurements
ForeignKeysHold(t, devs, sens) ==
  /\ t.device_id \in DOMAIN devs
  /\ \E s \in sens : s.sensor_id = t.sensor_id

\* REPLACE INTO: on a duplicate key the old row is deleted and a new one inserted
UpsertMeasurement_Replace(db, t, devs, sens) ==
  IF ~ForeignKeysHold(t, devs, sens) THEN [db EXCEPT !.ok = FALSE]
  ELSE [db EXCEPT
          !.rows = {r \in db.rows : ~SameKey(r, t)} \cup
                   {[id |-> db.auto, device_id |-> t.device_id,
                     sensor_id |-> t.sensor_id, timestamp |-> t.timestamp,
                     value_double |-> t.value_double, value_text |-> t.value_text,
                     status |-> t.status]},
          !.auto = db.auto + 1]

\* the sum of two numbers
AddNum(a, b) ==
  IF a.e >= b.e
  THEN Normalize(a.m + b.m * 10 ^ (a.e - b.e), a.e)
  ELSE Normalize(a.m * 10 ^ (b.e - a.e) + b.m, b.e)

\* ON DUPLICATE KEY UPDATE value_double = value_double + VALUES(value_double)
UpsertMeasurement_Accumulate(db, t, devs, sens) ==
  IF ~ForeignKeysHold(t, devs, sens) THEN [db EXCEPT !.ok = FALSE]
  ELSE IF \E r \in db.rows : SameKey(r, t)
  THEN [db EXCEPT !.rows =
          {IF SameKey(r, t)
           THEN [r EXCEPT !.value_double =
                            IF r.value_double # None /\ t.value_double # None
                            THEN Some(AddNum(r.value_double[1], t.value_double[1]))
                            ELSE t.value_double,
                          !.value_text = t.value_text,
                          !.status = t.status]
           ELSE r : r \in db.rows}]
  ELSE [db EXCEPT
          !.rows = db.rows \cup
                   {[id |-> db.auto, device_id |-> t.device_id,
                     sensor_id |-> t.sensor_id, timestamp |-> t.timestamp,
                     value_double |-> t.value_double, value_text |-> t.value_text,
                     status |-> t.status]},
          !.auto = db.auto + 1]

\* the statement without its ON DUPLICATE KEY clause taking effect: every row is added
UpsertMeasurement_AlwaysInsert(db, t, devs, sens) ==
  IF ~ForeignKeysHold(t, devs, sens) THEN [db EXCEPT !.ok = FALSE]
  ELSE
  [db EXCEPT
     !.rows = db.rows \cup
              {[id |-> db.auto, device_id |-> t.device_id,
                sensor_id |-> t.sensor_id, timestamp |-> t.timestamp,
                value_double |-> t.value_double, value_text |-> t.value_text,
                status |-> t.status]},
     !.auto = db.auto + 1]

\* a table that keeps only the latest reading of each sensor of a device: the
\* statement first deletes the sensor's other rows of that device
UpsertMeasurement_LatestOnly(db, t, devs, sens) ==
  IF ~ForeignKeysHold(t, devs, sens) THEN [db EXCEPT !.ok = FALSE]
  ELSE [db EXCEPT
          !.rows = {r \in db.rows : r.device_id # t.device_id \/ r.sensor_id # t.sensor_id}
                   \cup
                   {[id |-> db.auto, device_id |-> t.device_id,
                     sensor_id |-> t.sensor_id, timestamp |-> t.timestamp,
                     value_double |-> t.value_double, value_text |-> t.value_text,
                     status |-> t.status]},
          !.auto = db.auto + 1]

\* INSERT IGNORE: on a duplicate key the stored row is kept as it is
UpsertMeasurement_FirstWins(db, t, devs, sens) ==
  IF ~ForeignKeysHold(t, devs, sens) THEN [db EXCEPT !.ok = FALSE]
  ELSE IF \E r \in db.rows : SameKey(r, t) THEN db
  ELSE [db EXCEPT
          !.rows = db.rows \cup
                   {[id |-> db.auto, device_id |-> t.device_id,
                     sensor_id |-> t.sensor_id, timestamp |-> t.timestamp,
                     value_double |-> t.value_double, value_text |-> t.value_text,
                     status |-> t.status]},
          !.auto = db.auto + 1]

\* ON DUPLICATE KEY UPDATE col = COALESCE(VALUES(col), col): a null of the new
\* tuple leaves the stored column as it is
UpsertMeasurement_Coalesce(db, t, devs, sens) ==
  IF ~ForeignKeysHold(t, devs, sens) THEN [db EXCEPT !.ok = FALSE]
  ELSE IF \E r \in db.rows : SameKey(r, t)
  THEN [db EXCEPT !.rows =
          {IF SameKey(r, t)
           THEN [r EXCEPT !.value_double = IF t.value_double # None
                                           THEN t.value_double ELSE r.value_double,
                          !.value_text = IF t.value_text # None
                                         THEN t.value_text ELSE r.value_text,
                          !.status = IF t.status # None THEN t.status ELSE r.status]
           ELSE r : r \in db.rows}]
  ELSE [db EXCEPT
          !.rows = db.rows \cup
                   {[id |-> db.auto, device_id |-> t.device_id,
                     sensor_id |-> t.sensor_id, timestamp |-> t.timestamp,
                     value_double |-> t.value_double, value_text |-> t.value_text,
                     status |-> t.status]},
          !.auto = db.auto + 1]

\* INSERT INTO measurements ... ON DUPLICATE KEY UPDATE value_double, value_text, status;
\* db is [rows, auto, ok]
UpsertMeasurement(db, t, devs, sens) ==
  IF ~ForeignKeysHold(t, devs, sens) THEN [db EXCEPT !.ok = FALSE]
  ELSE IF \E r \in db.rows : SameKey(r, t)
  THEN [db EXCEPT !.rows =
          {IF SameKey(r, t)
           THEN [r EXCEPT !.value_double = t.value_double,
                          !.value_text = t.value_text,
                          !.status = t.status]
           ELSE r : r \in db.rows}]
  ELSE [db EXCEPT
          !.rows = db.rows \cup
                   {[id |-> db.auto, device_id |-> t.device_id,
                     sensor_id |-> t.sensor_id, timestamp |-> t.timestamp,
                     value_double |-> t.value_double, value_text |-> t.value_text,
                     status |-> t.status]},
          !.auto = db.auto + 1]

\* cursor.executemany(..., rows): stops at the first row the store rejects
RECURSIVE ExecMeasurements(_, _, _, _)
ExecMeasurements(db, rows, devs, sens) ==
  IF rows = << >> \/ ~db.ok THEN db
  ELSE ExecMeasurements(UpsertMeasurement(db, Head(rows), devs, sens),
                        Tail(rows), devs, sens)

\* an except branch that does not roll back
EndTransaction_NoRollback(before, working, committed) == working

\* connection.commit() / connection.rollback(): what the table holds after the
\* transaction, given what it held before and what the statements made of it
EndTransaction(before, working, committed) ==
  IF committed THEN working ELSE before

(***************************************************************************)
(* Errors.                                                                 *)
(***************************************************************************)
Error(what, path, missing) == Some([what |-> what, path |-> path, missing |-> missing])
StoreError(what) == Error(what, << >>, {})

\* the sequences that list the set S once each: list(set) has no defined order
Orders(S) ==
  {q \in [1..Cardinality(S) -> S] : \A i, j \in 1..Cardinality(S) : q[i] = q[j] => i = j}

CurrentPath == csv_files[file_no]
CurrentFile == File(CurrentPath)

LogEntry(outcome, after, n) ==
  [path |-> CurrentPath, outcome |-> outcome, before |-> started, after |-> after,
   commits |-> n]

\* the last two calls of process_csv that ended
Logged(entry) == IF Len(log) < 2 THEN Append(log, entry) ELSE << log[2], entry >>

Min(a, b) == IF a < b THEN a ELSE b

(***************************************************************************)
(* Initial state: an empty schema, main not started.                       *)
(***************************************************************************)
NoLocals ==
  /\ cols' = << >>
  /\ sensor_bases' = << >>
  /\ device_pairs' = << >>
  /\ sensor_id_map' = << >>
  /\ chunk_no' = 0
  /\ out_rows' = << >>

Init ==
  /\ devices = << >>
  /\ sensors = {}
  /\ sensors_auto = 1
  /\ measurements = {}
  /\ measurements_auto = 1
  /\ pc = "idle"
  /\ csv_files = << >>
  /\ file_no = 0
  /\ error = None
  /\ cols = << >>
  /\ sensor_bases = << >>
  /\ device_pairs = << >>
  /\ sensor_id_map = << >>
  /\ chunk_no = 0
  /\ out_rows = << >>
  /\ imports = 0
  /\ started = [devices |-> << >>, sensors |-> {}, sensors_auto |-> 1,
                measurements |-> {}, measurements_auto |-> 1]
  /\ commits = 0
  /\ log = << >>
  /\ arg = << >>
  /\ ret = << >>

(***************************************************************************)
(* An exception leaves process_csv and main: nothing catches it, and the    *)
(* locals of both are gone.  after is the store the failed call leaves.    *)
(***************************************************************************)
MainEnds ==
  /\ pc' = "idle"
  /\ csv_files' = << >>
  /\ file_no' = 0

\* a main() that catches the exception of a file and goes on to the next one
Raise_NextFile(err, after) ==
  /\ error' = err
  /\ log' = Logged(LogEntry("failed", after, commits))
  /\ NoLocals
  /\ UNCHANGED << imports, started, commits >>
  /\ IF file_no < Len(csv_files)
     THEN /\ file_no' = file_no + 1
          /\ pc' = "header"
          /\ UNCHANGED csv_files
     ELSE MainEnds

Raise(err, after) ==
  /\ MainEnds
  /\ error' = err
  /\ log' = Logged(LogEntry("failed", after, commits))
  /\ NoLocals
  /\ UNCHANGED << imports, started, commits >>

(***************************************************************************)
(* main(): the glob, ensure_schema() and the entry of the for loop.  The   *)
(* tables exist, so the DDL changes nothing; it can fail like any          *)
(* round-trip.                                                             *)
(***************************************************************************)
MainStart ==
  /\ pc = "idle"
  /\ UNCHANGED call_vars
  /\ imports < MaxImports
  /\ \E matched \in SUBSET Paths, schema_ok \in BOOLEAN :
       IF matched = {}
       THEN /\ error' = StoreError("No CSV files matched")
            /\ MainEnds
       ELSE IF ~schema_ok
       THEN /\ error' = StoreError("Schema creation failed")
            /\ MainEnds
       ELSE /\ error' = None
            /\ csv_files' = Sorted(matched)
            /\ pc' = "header"
            /\ file_no' = 1
  /\ UNCHANGED << store_vars, local_vars, hist_vars >>

(***************************************************************************)
(* process_csv, up to the preview: the header, the required columns, the   *)
(* bases, and the device pairs in the order list(set) gives them.          *)
(***************************************************************************)
ReadHeader ==
  /\ pc = "header"
  /\ UNCHANGED call_vars
  /\ imports < MaxImports
  /\ imports' = imports + 1
  /\ started' = Store
  /\ commits' = 0
  /\ LET missing == required \ {CurrentFile.cols[i] : i \in 1..Len(CurrentFile.cols)}
     IN  IF missing # {}
         THEN /\ MainEnds
              /\ error' = Error("missing required columns", CurrentPath, missing)
              /\ log' = Logged([LogEntry("failed", Store, 0) EXCEPT !.before = Store])
              /\ NoLocals
         ELSE /\ pc' = "devices"
              /\ cols' = CurrentFile.cols
              /\ sensor_bases' = find_sensor_bases(CurrentFile.cols)
              /\ device_pairs' \in Orders(DevicePairs(CurrentFile))
              /\ UNCHANGED << error, log, sensor_id_map, chunk_no, out_rows,
                              csv_files, file_no >>
  /\ UNCHANGED store_vars

\* an insert_devices whose except branch rolls back and returns without raising
InsertDevices_Swallow ==
  /\ pc = "devices"
  /\ UNCHANGED call_vars
  /\ pc' = "sensors"
  /\ \E fault \in 0..(Len(device_pairs) + 1) :
       devices' = EndTransaction(devices,
                    ExecDevices(devices,
                      SubSeq(device_pairs, 1, Min(fault, Len(device_pairs)))),
                    fault = Len(device_pairs) + 1)
  /\ UNCHANGED << sensors, sensors_auto, measurements, measurements_auto, error, log,
                  local_vars, csv_files, file_no, imports, started, commits >>

(***************************************************************************)
(* insert_devices(device_pairs): fault is the number of rows executed      *)
(* before the connection fails; Len + 1 means it never fails, Len that     *)
(* the commit does.                                                        *)
(***************************************************************************)
InsertDevices ==
  /\ pc = "devices"
  /\ UNCHANGED call_vars
  /\ IF device_pairs = << >>
     THEN /\ pc' = "sensors"
          /\ UNCHANGED << store_vars, error, log, local_vars, csv_files, file_no,
                          imports, started, commits >>
     ELSE \E fault \in 0..(Len(device_pairs) + 1) :
            LET working   == ExecDevices(devices,
                               SubSeq(device_pairs, 1, Min(fault, Len(device_pairs))))
                committed == fault = Len(device_pairs) + 1
                after     == EndTransaction(devices, working, committed)
            IN  /\ devices' = after
                /\ UNCHANGED << sensors, sensors_auto, measurements, measurements_auto >>
                /\ IF committed
                   THEN /\ pc' = "sensors"
                        /\ UNCHANGED << error, log, local_vars, csv_files, file_no,
                                        imports, started, commits >>
                   ELSE Raise(StoreError("Insert devices failed"),
                              [Store EXCEPT !.devices = after])

\* an insert_sensors whose except branch rolls back and returns without raising
InsertSensors_Swallow ==
  /\ pc = "sensors"
  /\ UNCHANGED call_vars
  /\ pc' = "map"
  /\ \E fault \in 0..(Len(sensor_bases) + 1) :
       LET working   == ExecSensors([rows |-> sensors, auto |-> sensors_auto],
                          SubSeq(sensor_bases, 1, Min(fault, Len(sensor_bases))))
           committed == fault = Len(sensor_bases) + 1
       IN  /\ sensors' = EndTransaction(sensors, working.rows, committed)
           /\ sensors_auto' = working.auto
  /\ UNCHANGED << devices, measurements, measurements_auto, error, log, local_vars,
                  csv_files, file_no, imports, started, commits >>

(***************************************************************************)
(* insert_sensors(sensor_bases)                                            *)
(***************************************************************************)
InsertSensors ==
  /\ pc = "sensors"
  /\ UNCHANGED call_vars
  /\ IF sensor_bases = << >>
     THEN /\ pc' = "map"
          /\ UNCHANGED << store_vars, error, log, local_vars, csv_files, file_no,
                          imports, started, commits >>
     ELSE \E fault \in 0..(Len(sensor_bases) + 1) :
            LET working   == ExecSensors([rows |-> sensors, auto |-> sensors_auto],
                               SubSeq(sensor_bases, 1, Min(fault, Len(sensor_bases))))
                committed == fault = Len(sensor_bases) + 1
                after     == EndTransaction(sensors, working.rows, committed)
            IN  /\ sensors' = after
                /\ sensors_auto' = working.auto
                /\ UNCHANGED << devices, measurements, measurements_auto >>
                /\ IF committed
                   THEN /\ pc' = "map"
                        /\ UNCHANGED << error, log, local_vars, csv_files, file_no,
                                        imports, started, commits >>
                   ELSE Raise(StoreError("Insert sensors failed"),
                              [Store EXCEPT !.sensors = after,
                                            !.sensors_auto = working.auto])

(***************************************************************************)
(* load_sensor_id_map(): a run_query round-trip, which can fail.           *)
(***************************************************************************)
SensorIdMap(tbl) ==
  [name \in {r.sensor_name : r \in tbl} |->
     (CHOOSE r \in tbl : r.sensor_name = name).sensor_id]

load_sensor_id_map == SensorIdMap(sensors)

LoadSensorIdMap ==
  /\ pc = "map"
  /\ UNCHANGED call_vars
  /\ \E query_ok \in BOOLEAN :
       IF query_ok
       THEN /\ sensor_id_map' = load_sensor_id_map
            /\ chunk_no' = 1
            /\ pc' = "chunk"
            /\ UNCHANGED << error, log, cols, sensor_bases, device_pairs, out_rows,
                            csv_files, file_no, imports, started, commits >>
       ELSE Raise(StoreError("MySQL query failed"), Store)
  /\ UNCHANGED store_vars

(***************************************************************************)
(* One round of the chunk loop up to the call of bulk_upsert_measurements: *)
(* read, parse the times, drop the rows without one, unpivot.              *)
(***************************************************************************)
NextChunk ==
  /\ pc = "chunk"
  /\ UNCHANGED call_vars
  /\ chunk_no <= NumChunks(CurrentFile)
  /\ LET chunk == DropNaT(Chunk(CurrentFile, chunk_no))
     IN  IF chunk = << >>
         THEN /\ chunk_no' = chunk_no + 1
              /\ UNCHANGED << pc, out_rows >>
         ELSE /\ out_rows' = Unpivot(chunk, sensor_bases, sensor_id_map, cols)
              /\ pc' = "upsert"
              /\ UNCHANGED chunk_no
  /\ UNCHANGED << store_vars, csv_files, file_no, error, cols, sensor_bases,
                  device_pairs, sensor_id_map, hist_vars >>

(***************************************************************************)
(* bulk_upsert_measurements(out_rows)                                      *)
(***************************************************************************)
BulkUpsert ==
  /\ pc = "upsert"
  /\ UNCHANGED call_vars
  /\ IF out_rows = << >>
     THEN /\ pc' = "chunk"
          /\ chunk_no' = chunk_no + 1
          /\ UNCHANGED << store_vars, csv_files, file_no, error, cols, sensor_bases,
                          device_pairs, sensor_id_map, out_rows, hist_vars >>
     ELSE \E fault \in 0..(Len(out_rows) + 1) :
            LET working   == ExecMeasurements(
                               [rows |-> measurements, auto |-> measurements_auto,
                                ok |-> TRUE],
                               SubSeq(out_rows, 1, Min(fault, Len(out_rows))),
                               devices, sensors)
                committed == fault = Len(out_rows) + 1 /\ working.ok
                after     == EndTransaction(measurements, working.rows, committed)
            IN  /\ measurements' = after
                /\ measurements_auto' = working.auto
                /\ UNCHANGED << devices, sensors, sensors_auto >>
                /\ IF committed
                   THEN /\ pc' = "chunk"
                        /\ chunk_no' = chunk_no + 1
                        /\ commits' = commits + 1
                        /\ out_rows' = << >>
                        /\ UNCHANGED << csv_files, file_no, error, cols, sensor_bases,
                                        device_pairs, sensor_id_map, imports, started,
                                        log >>
                   ELSE Raise(StoreError("Upsert measurements failed"),
                              [Store EXCEPT !.measurements = after,
                                            !.measurements_auto = working.auto])

(***************************************************************************)
(* The chunk loop is exhausted: process_csv returns, and main goes on to   *)
(* the next file or ends.                                                  *)
(***************************************************************************)
Return ==
  /\ pc = "chunk"
  /\ UNCHANGED call_vars
  /\ chunk_no > NumChunks(CurrentFile)
  /\ log' = Logged(LogEntry("done", Store, commits))
  /\ NoLocals
  /\ IF file_no < Len(csv_files)
     THEN /\ file_no' = file_no + 1
          /\ pc' = "header"
          /\ UNCHANGED csv_files
     ELSE MainEnds
  /\ UNCHANGED << store_vars, error, imports, started, commits >>

Next ==
  \/ MainStart
  \/ ReadHeader
  \/ InsertDevices
  \/ InsertSensors
  \/ LoadSensorIdMap
  \/ NextChunk
  \/ BulkUpsert
  \/ Return

Spec == Init /\ [][Next]_vars

(***************************************************************************)
(* Properties.                                                             *)
(***************************************************************************)
\* a measurements row without its surrogate id
Fields(r) ==
  [device_id |-> r.device_id, sensor_id |-> r.sensor_id, timestamp |-> r.timestamp,
   value_double |-> r.value_double, value_text |-> r.value_text, status |-> r.status]
Rows(tbl) == {Fields(r) : r \in tbl}

\* the last two calls of process_csv were of the same file
SameFileTwice == Len(log) = 2 /\ log[1].path = log[2].path

\* C1: when process_csv has run to its end twice in a row on the same file, the
\* measurements table after the second run has as many rows as after the first,
\* and the same value_double, value_text and status under every key.
C1_ReimportIdempotent ==
  (SameFileTwice /\ log[1].outcome = "done" /\ log[2].outcome = "done")
    => /\ Cardinality(log[2].after.measurements) = Cardinality(log[1].after.measurements)
       /\ Rows(log[2].after.measurements) = Rows(log[1].after.measurements)

\* both runs of the file committed batches
C1_Witness ==
  /\ SameFileTwice
  /\ log[1].outcome = "done" /\ log[2].outcome = "done"
  /\ log[1].commits >= 2 /\ log[2].commits >= 2
  /\ measurements # {}

\* C2: in every reachable state no two rows of measurements have the same
\* (device_id, sensor_id, timestamp); a record for a triple the table holds
\* changes that row and adds none.
C2_KeyUnique ==
  \A r1, r2 \in measurements :
    (/\ r1.device_id = r2.device_id
     /\ r1.sensor_id = r2.sensor_id
     /\ r1.timestamp = r2.timestamp) => r1 = r2

\* a committed batch has rewritten a row that the table held when the file began
C2_Witness ==
  /\ commits >= 1
  /\ \E r \in measurements, r0 \in started.measurements :
       /\ r.id = r0.id
       /\ r.device_id = r0.device_id /\ r.sensor_id = r0.sensor_id
       /\ r.timestamp = r0.timestamp
       /\ r.status # r0.status

\* C3: in every reachable state, every row of measurements has its device_id in
\* devices and its sensor_id in sensors, also after a file that failed.
C3_ReferentialCompleteness ==
  \A r \in measurements :
    /\ r.device_id \in DOMAIN devices
    /\ \E s \in sensors : s.sensor_id = r.sensor_id

\* a file that names a device missing from devices has failed in its upsert after
\* committing a batch, and the rows of that batch are stored
C3_Witness ==
  /\ error = StoreError("Upsert measurements failed")
  /\ Len(log) >= 1
  /\ log[Len(log)].outcome = "failed"
  /\ log[Len(log)].commits >= 1
  /\ \E i \in 1..Len(File(log[Len(log)].path).rows) :
       StrOf(File(log[Len(log)].path).rows[i].device_id) \notin DOMAIN devices
  /\ measurements # {}

\* C4: whenever a batch is handed to bulk_upsert_measurements, the device_id of
\* each of its tuples is in devices and every sensor base of the file is in sensors.
C4_RegisteredBeforeSubmit ==
  pc = "upsert" =>
    /\ \A i \in 1..Len(out_rows) : out_rows[i].device_id \in DOMAIN devices
    /\ \A j \in 1..Len(sensor_bases) :
         \E s \in sensors : s.sensor_name = sensor_bases[j]

\* C5: an upsert leaves devices and sensors as they are, leaves every measurements
\* row whose key is not in the batch as it is, and keeps the surrogate id and the key
\* fields of every row whose key is in the batch.
C5_UpsertFrame ==
  [][pc = "upsert" =>
       /\ devices' = devices
       /\ sensors' = sensors
       /\ \A r \in measurements :
            IF \E i \in 1..Len(out_rows) : SameKey(r, out_rows[i])
            THEN \E r2 \in measurements' :
                   /\ r2.id = r.id
                   /\ r2.device_id = r.device_id
                   /\ r2.sensor_id = r.sensor_id
                   /\ r2.timestamp = r.timestamp
            ELSE r \in measurements']_vars

\* a committed batch has changed the status of a stored row and kept its number,
\* while another stored row of the table was not in the batch
C5_Witness ==
  /\ pc = "chunk"
  /\ commits = 1
  /\ \E r \in measurements, r0 \in started.measurements :
       /\ r.id = r0.id
       /\ r.status # r0.status
       /\ r.value_double = r0.value_double
       /\ r.value_double # None
  /\ \E r \in measurements : r \in started.measurements

AllNull(t) == t.value_double = None /\ t.value_text = None /\ t.status = None
AllCellsEmpty(row) == \A c \in DOMAIN row.cells : row.cells[c] = NaN
ParsedChunk == DropNaT(Chunk(CurrentFile, chunk_no))

\* C6: no tuple of a batch and no stored measurement has value_double, value_text
\* and status all null, and a batch holds at most one tuple per sensor base for each
\* row of the chunk that has a non-empty sensor cell: a row whose sensor cells are
\* all empty adds none.
C6_EmptySuppressed ==
  /\ \A r \in measurements : ~AllNull(r)
  /\ \A i \in 1..Len(out_rows) : ~AllNull(out_rows[i])
  /\ pc = "upsert" =>
       Len(out_rows) <=
         Len(sensor_bases) *
           Cardinality({i \in 1..Len(ParsedChunk) : ~AllCellsEmpty(ParsedChunk[i])})

\* a chunk with a row whose sensor cells are all empty has been unpivoted
C6_Witness ==
  /\ pc = "upsert"
  /\ \E i \in 1..Len(ParsedChunk) : AllCellsEmpty(ParsedChunk[i])

\* the last tuple of the batch with the key of tuple i
LastOf(i) ==
  CHOOSE j \in i..Len(out_rows) :
    /\ SameKey(out_rows[j], out_rows[i])
    /\ \A k \in (j + 1)..Len(out_rows) : ~SameKey(out_rows[k], out_rows[i])

\* C7: a call of bulk_upsert_measurements with a non-empty batch either returns with
\* every tuple of the batch stored, or raises "Upsert measurements failed" with the
\* measurements table as it was before the call, earlier batches included.
C7_BatchAtomic ==
  [][(pc = "upsert" /\ out_rows # << >>) =>
       \/ /\ pc' = "chunk"
          /\ error' = error
          /\ \A i \in 1..Len(out_rows) :
               \E r \in measurements' : Fields(r) = out_rows[LastOf(i)]
       \/ /\ pc' = "idle"
          /\ error' = StoreError("Upsert measurements failed")
          /\ measurements' = measurements]_vars

\* an upsert has failed in a file that had committed a batch, and the table holds
\* what that batch added to the table the file started with
C7_Witness ==
  /\ error = StoreError("Upsert measurements failed")
  /\ Len(log) >= 1
  /\ log[Len(log)].outcome = "failed"
  /\ log[Len(log)].commits >= 1
  /\ log[Len(log)].after.measurements = measurements
  /\ log[Len(log)].before.measurements # measurements

(***************************************************************************)
(* process_csv run from its first line to its last with no fault, as one   *)
(* function of the store s it starts from: the store it leaves, and        *)
(* whether the store accepted every batch.                                 *)
(***************************************************************************)
RECURSIVE RunChunks(_, _, _, _, _, _)
RunChunks(db, file, n, id_map, devs, sens) ==
  IF n > NumChunks(file) \/ ~db.ok THEN db
  ELSE RunChunks(
         ExecMeasurements(db,
           Unpivot(DropNaT(Chunk(file, n)), find_sensor_bases(file.cols), id_map,
                   file.cols),
           devs, sens),
         file, n + 1, id_map, devs, sens)

FullRun(s, file, order) ==
  LET devs == ExecDevices(s.devices, order)
      sdb  == ExecSensors([rows |-> s.sensors, auto |-> s.sensors_auto],
                          find_sensor_bases(file.cols))
      mdb  == RunChunks([rows |-> s.measurements, auto |-> s.measurements_auto,
                         ok |-> TRUE],
                        file, 1, SensorIdMap(sdb.rows), devs, sdb.rows)
  IN  [devices |-> devs, sensors |-> sdb.rows, measurements |-> mdb.rows,
       ok |-> mdb.ok]

SensorNames(tbl) == {r.sensor_name : r \in tbl}

\* C8: when a run of a file failed after committing a batch and the next run of the
\* same file ran to its end, devices, the sensor names and the measurements (count,
\* keys and payload) are those a single fault-free run of the file leaves when
\* started from the store the failed run started from.
C8_ReplaySafe ==
  (/\ SameFileTwice
   /\ log[1].outcome = "failed" /\ log[1].commits >= 1
   /\ log[2].outcome = "done")
    => \E order \in Orders(DevicePairs(File(log[1].path))) :
         LET single == FullRun(log[1].before, File(log[1].path), order)
         IN  /\ single.ok
             /\ log[2].after.devices = single.devices
             /\ SensorNames(log[2].after.sensors) = SensorNames(single.sensors)
             /\ Rows(log[2].after.measurements) = Rows(single.measurements)
             /\ Cardinality(log[2].after.measurements) = Cardinality(single.measurements)

\* a file failed in a later batch with one committed, and was then run to its end
C8_Witness ==
  /\ SameFileTwice
  /\ log[1].outcome = "failed" /\ log[1].commits >= 1
  /\ log[1].after.measurements # log[1].before.measurements
  /\ log[2].outcome = "done" /\ log[2].commits > log[1].commits
  /\ log[2].after.measurements # log[1].after.measurements

MissingColumns(file) ==
  {COL_DEVICE_ID, COL_DEVICE_NAME, COL_TIME} \ {file.cols[i] : i \in 1..Len(file.cols)}

\* C9: when the header of the file lacks device_id, device_name or time, process_csv
\* raises an error that names the file and the missing columns, and leaves devices,
\* sensors, measurements and their counters as they were: it ends there.
C9_MissingColumnsFatal ==
  [][(pc = "header" /\ MissingColumns(CurrentFile) # {}) =>
       /\ error' = Error("missing required columns", CurrentPath,
                         MissingColumns(CurrentFile))
       /\ pc' = "idle"
       /\ UNCHANGED store_vars]_vars

\* a file without device_name has been refused with the store already filled
C9_Witness ==
  /\ error = Error("missing required columns", PATH_C, {COL_DEVICE_NAME})
  /\ pc = "idle"
  /\ Len(log) = 2
  /\ log[2].path = PATH_C /\ log[2].outcome = "failed"
  /\ log[2].after = log[2].before
  /\ measurements # {}

\* C10: no step changes or removes the identifier of a sensor name: the map
\* load_sensor_id_map would return after the step extends the one before it.
C10_SensorIdsStable ==
  [][/\ \A r \in sensors : r \in sensors'
     /\ \A name \in DOMAIN load_sensor_id_map :
          /\ name \in DOMAIN load_sensor_id_map'
          /\ load_sensor_id_map'[name] = load_sensor_id_map[name]]_vars

\* a later file has registered a known sensor name together with a new one, and
\* the map read back holds the old identifier and the new
C10_Witness ==
  /\ pc = "chunk"
  /\ started.sensors # {}
  /\ \A r \in started.sensors : sensor_id_map[r.sensor_name] = r.sensor_id
  /\ \E j \in 1..Len(sensor_bases) : sensor_bases[j] \in SensorNames(started.sensors)
  /\ \E j \in 1..Len(sensor_bases) : sensor_bases[j] \notin SensorNames(started.sensors)

\* the device_name of the last row of the preview, in file order, that names
\* device d
LastPreviewName(file, d) ==
  LET rows == Preview(file)
      last == CHOOSE i \in 1..Len(rows) :
                /\ StrOf(rows[i].device_id) = d
                /\ \A j \in (i + 1)..Len(rows) : StrOf(rows[j].device_id) # d
  IN  StrOf(rows[last].device_name)

PreviewDevices(file) ==
  {StrOf(Preview(file)[i].device_id) : i \in 1..Len(Preview(file))}

\* C11: once insert_devices has committed for a file, every device_id of the
\* preview is stored with the device_name of the last preview row, in file order,
\* that mentions it.
C11_LastSeenNameWins ==
  pc = "sensors" =>
    \A d \in PreviewDevices(CurrentFile) :
      /\ d \in DOMAIN devices
      /\ devices[d] = LastPreviewName(CurrentFile, d)

\* C12: no step removes a key from measurements, and a step changes a stored row
\* only if it is a call of bulk_upsert_measurements whose batch holds a tuple of
\* the row's key; so the row of a reading that a later import gives as empty, or
\* with a time that does not parse, stays as it is.
C12_NeverDeleted ==
  [][\A r \in measurements :
       IF pc = "upsert" /\ \E i \in 1..Len(out_rows) : SameKey(r, out_rows[i])
       THEN \E r2 \in measurements' : SameKey(r2, r)
       ELSE r \in measurements']_vars

\* a file was imported to its end, with a batch committed, over a store that held
\* a reading of a device and instant for which the file has a row with every
\* sensor cell empty, and one for which the file has a row whose time does not
\* parse; both stored rows are there afterwards, unchanged
C12_Witness ==
  \E k \in 1..Len(log) :
    LET rows == File(log[k].path).rows
        kept == log[k].before.measurements \cap log[k].after.measurements
    IN  /\ log[k].outcome = "done"
        /\ log[k].commits >= 1
        /\ \E r \in kept : \E i \in 1..Len(rows) :
             /\ StrOf(rows[i].device_id) = r.device_id
             /\ rows[i].time.form = "slash"
             /\ rows[i].time.t = r.timestamp.t
             /\ AllCellsEmpty(rows[i])
        /\ \E r \in kept : \E i \in 1..Len(rows) :
             /\ StrOf(rows[i].device_id) = r.device_id
             /\ rows[i].time.form \in {"dash", "junk"}
             /\ rows[i].time.t = r.timestamp.t
             /\ ~AllCellsEmpty(rows[i])

\* the time cell is written as YYYY/MM/DD HH:MM:SS
TimeParses(row) == row.time.form \in {"slash", "slash_unpadded"}

\* the rows of the chunk being read
RawChunk == Chunk(CurrentFile, chunk_no)

\* C13: a batch is what the rows of the chunk whose time is written as
\* YYYY/MM/DD HH:MM:SS give without the other rows: a row whose time does not
\* parse adds no tuple for any base, whatever its cells hold; and a chunk in
\* which no time parses is passed over without a call of bulk_upsert_measurements,
\* the store left as it is.
C13_WholeRowTimeFilter ==
  [][pc = "chunk" /\ chunk_no <= NumChunks(CurrentFile) =>
       IF \E i \in 1..Len(RawChunk) : TimeParses(RawChunk[i])
       THEN /\ pc' = "upsert"
            /\ out_rows' = Unpivot(SelectSeq(RawChunk, TimeParses), sensor_bases,
                                   sensor_id_map, cols)
            /\ \A j \in 1..Len(out_rows') : \E i \in 1..Len(RawChunk) :
                 /\ TimeParses(RawChunk[i])
                 /\ out_rows'[j].device_id = StrOf(RawChunk[i].device_id)
                 /\ out_rows'[j].timestamp.t = RawChunk[i].time.t
       ELSE /\ pc' = "chunk"
            /\ chunk_no' = chunk_no + 1
            /\ out_rows' = out_rows
            /\ UNCHANGED store_vars]_vars

\* a batch of a chunk that has a row whose time parses, with a tuple in the batch,
\* and a row whose time does not parse although its sensor cells are not empty
C13_Witness ==
  /\ pc = "upsert"
  /\ out_rows # << >>
  /\ \E i \in 1..Len(RawChunk) : ~TimeParses(RawChunk[i]) /\ ~AllCellsEmpty(RawChunk[i])
  /\ \E i \in 1..Len(RawChunk) : TimeParses(RawChunk[i])

(***************************************************************************)
(* The pure helpers called on their own.  Everything of main() is at rest: *)
(* Idle is the initial state without pc and the call.                      *)
(***************************************************************************)
Idle ==
  /\ devices = << >>
  /\ sensors = {}
  /\ sensors_auto = 1
  /\ measurements = {}
  /\ measurements_auto = 1
  /\ csv_files = << >>
  /\ file_no = 0
  /\ error = None
  /\ cols = << >>
  /\ sensor_bases = << >>
  /\ device_pairs = << >>
  /\ sensor_id_map = << >>
  /\ chunk_no = 0
  /\ out_rows = << >>
  /\ imports = 0
  /\ started = [devices |-> << >>, sensors |-> {}, sensors_auto |-> 1,
                measurements |-> {}, measurements_auto |-> 1]
  /\ commits = 0
  /\ log = << >>

\* the sequences over S of length at most n
SeqsUpTo(S, n) == UNION {[1..k -> S] : k \in 0..n}

\* header columns: the length of the lists find_sensor_bases is called with, and
\* the names they are made of: a column without a suffix, both columns of t and
\* of h, a column that is a suffix alone, and one that ends with both suffixes
MaxCols == 3
ColumnPool ==
  {COL_TIME, T_VALUE, T_STATUS, H_VALUE, H_STATUS, VALUE_SUFFIX,
   Col(T_VALUE, STATUS_SUFFIX)}

InitBases ==
  /\ Idle
  /\ pc = "find_sensor_bases"
  /\ arg \in SeqsUpTo(ColumnPool, MaxCols)
  /\ ret = << >>

CallFindSensorBases ==
  /\ pc = "find_sensor_bases"
  /\ ret' = find_sensor_bases(arg)
  /\ pc' = "bases_returned"
  /\ UNCHANGED << store_vars, csv_files, file_no, error, local_vars, hist_vars, arg >>

NextBases == CallFindSensorBases

SpecBases == InitBases /\ [][NextBases]_vars

\* the list q rearranged by the permutation p of its indexes
Permuted(q, p) == [i \in 1..Len(q) |-> q[p[i]]]

\* C14: find_sensor_bases returns, for a list of column names and for each of its
\* permutations, the same list; the list is strictly increasing (sorted, without
\* duplicates); each of its names followed by _status or _value is a column; and
\* each column that is a name followed by _status or _value has that name in it.
C14_BasesOrderIndependent ==
  pc = "bases_returned" =>
    /\ \A p \in Orders(1..Len(arg)) : find_sensor_bases(Permuted(arg, p)) = ret
    /\ \A i, j \in 1..Len(ret) : i < j => StrLess(ret[i], ret[j])
    /\ \A i \in 1..Len(ret) : \E k \in 1..Len(arg) :
         arg[k] \in {ret[i] \o STATUS_SUFFIX, ret[i] \o VALUE_SUFFIX}
    /\ \A k \in 1..Len(arg) : \A n \in 0..Len(arg[k]) :
         arg[k] \in {SubSeq(arg[k], 1, n) \o STATUS_SUFFIX,
                     SubSeq(arg[k], 1, n) \o VALUE_SUFFIX}
           => \E i \in 1..Len(ret) : ret[i] = SubSeq(arg[k], 1, n)

\* a call with three columns of two bases, the first column that of the greater
\* base, and one base with both of its columns
C14_Witness ==
  /\ pc = "bases_returned"
  /\ Len(arg) = 3
  /\ Len(ret) = 2
  /\ arg[1] \in {ret[2] \o STATUS_SUFFIX, ret[2] \o VALUE_SUFFIX}
  /\ \E b \in {ret[1], ret[2]} :
       {b \o STATUS_SUFFIX, b \o VALUE_SUFFIX} \subseteq {arg[k] : k \in 1..3}

\* raw cells: the length of the strings try_float is called with, their
\* characters, and strings around the 255 characters of value_text
MaxStrLen == 3
CellAlphabet == {" ", "1", ".", "-", "n", "a", "N", "x"}
Filled(n) == [i \in 1..n |-> "x"]
RawCells ==
  {PyNone, NaN, PyFloat(215, 1), PyFloat(0, 0), PyInt(4), PyInt(0 - 3)}
  \cup {PyStr(s) : s \in SeqsUpTo(CellAlphabet, MaxStrLen)}
  \cup {PyStr(Filled(VALUE_TEXT_MAX)), PyStr(Filled(VALUE_TEXT_MAX + 1)),
        PyStr(<< " " >> \o Filled(VALUE_TEXT_MAX + 1) \o << " " >>)}

InitValue ==
  /\ Idle
  /\ pc = "try_float"
  /\ arg \in RawCells
  /\ ret = << >>

CallTryFloat ==
  /\ pc = "try_float"
  /\ ret' = try_float(arg)
  /\ pc' = "value_returned"
  /\ UNCHANGED << store_vars, csv_files, file_no, error, local_vars, hist_vars, arg >>

NextValue == CallTryFloat

SpecValue == InitValue /\ [][NextValue]_vars

\* t is written as a number: an optional sign, then digits with at most one point
\* among them, or the nan literal
IsNumeral(t) ==
  \E sign \in {<< >>, << "+" >>, << "-" >>} :
    \E k \in 0..Len(t) :
      /\ SubSeq(t, 1, Len(sign)) = sign
      /\ k >= Len(sign)
      /\ LET ip   == SubSeq(t, Len(sign) + 1, k)
             rest == SubSeq(t, k + 1, Len(t))
             fp   == IF rest = << >> THEN << >> ELSE Tail(rest)
         IN  \/ /\ rest = << >> \/ Head(rest) = "."
                /\ AllDigits(ip) /\ AllDigits(fp)
                /\ Len(ip) + Len(fp) >= 1
             \/ /\ k = Len(t)
                /\ Lower(ip) = << "n", "a", "n" >>

\* the pair r is the normalisation of the raw cell x, text being the string that a
\* cell that is not a number is kept as
ValueNormalized(x, r, text) ==
  /\ r[1] = None \/ r[2] = None
  /\ CASE x.kind = "none" -> r = << None, None >>
       [] x.kind = "float" /\ x.nan -> r = << None, None >>
       [] x.kind \in {"int", "float"} /\ ~x.nan -> r = << Some(x.num), None >>
       [] x.kind = "str" ->
            LET t == Strip(x.str)
            IN  IF t = << >> \/ Lower(t) = << "n", "a", "n" >>
                THEN r = << None, None >>
                ELSE IF IsNumeral(t)
                THEN r[1] # None /\ r[2] = None
                ELSE r = << None, Some(Prefix(text, VALUE_TEXT_MAX)) >>

\* the statement with "the string" read as the cell's string: a string that is
\* no number is kept as its own first 255 characters
C15_TextOfCell ==
  pc = "value_returned" => ValueNormalized(arg, ret, arg.str)

\* C15: try_float returns a pair with at most one member non-empty: absent,
\* not-a-number and strings that trim to empty or to nan in any case give (empty,
\* empty); ints, floats and strings written as a number give (number, empty); every
\* other string gives (empty, the first 255 characters of the trimmed string).
C15_ValueNormalized ==
  pc = "value_returned" => ValueNormalized(arg, ret, Strip(arg.str))

\* a call with a string that is no number, has blanks around it, and is longer
\* than 255 characters once trimmed
C15_Witness ==
  /\ pc = "value_returned"
  /\ arg.kind = "str"
  /\ Strip(arg.str) # arg.str
  /\ Len(Strip(arg.str)) > VALUE_TEXT_MAX
  /\ ret[1] = None
  /\ ret[2] # None
  /\ Len(ret[2][1]) = VALUE_TEXT_MAX

\* C16: main takes the matched files in increasing path order, one after the
\* other: the loop moves to the next path only when process_csv has returned for
\* the current one; and the step at which process_csv raises ends main, with no
\* further call of process_csv, and leaves devices, sensors and measurements as
\* the commits before it left them.
C16_RunAborts ==
  [][/\ pc' # "idle" =>
          \A i, j \in 1..Len(csv_files') : i < j => StrLess(csv_files'[i], csv_files'[j])
     /\ (pc = "idle" /\ pc' # "idle") => (pc' = "header" /\ file_no' = 1)
     /\ (pc # "idle" /\ pc' # "idle") =>
          /\ csv_files' = csv_files
          /\ file_no' \in {file_no, file_no + 1}
          /\ file_no' = file_no + 1 =>
               /\ pc = "chunk" /\ pc' = "header"
               /\ error' = None
               /\ log'[Len(log')].path = csv_files[file_no]
               /\ log'[Len(log')].outcome = "done"
     /\ (pc # "idle" /\ error' # None) =>
          /\ pc' = "idle"
          /\ log'[Len(log')].path = csv_files[file_no]
          /\ log'[Len(log')].outcome = "failed"
          /\ imports' = IF pc = "header" THEN imports + 1 ELSE imports
          /\ devices' = devices
          /\ sensors' = sensors
          /\ measurements' = measurements]_vars

\* the second file of three is at a batch that the store will reject, after a
\* batch of it and the first file were committed: the call is about to raise with
\* a file left
C16_Witness ==
  /\ pc = "upsert"
  /\ file_no = 2
  /\ file_no < Len(csv_files)
  /\ Len(log) >= 1 /\ log[Len(log)].outcome = "done" /\ log[Len(log)].commits >= 1
  /\ commits >= 1
  /\ \E i \in 1..Len(out_rows) : ~ForeignKeysHold(out_rows[i], devices, sensors)

\* the steps of process_csv in their order: the header read with the base
\* discovery, the device registration, the sensor registration, the map read-back,
\* and the rounds of chunk read with unpivot, then upsert
StepOrder ==
  {<< "header", "devices" >>, << "devices", "sensors" >>, << "sensors", "map" >>,
   << "map", "chunk" >>, << "chunk", "chunk" >>, << "chunk", "upsert" >>,
   << "upsert", "chunk" >>}

\* C17: a call of process_csv goes through its steps in the order header and
\* bases, devices, sensors, sensor map, then rounds of chunk and upsert, and
\* returns only from the chunk loop; the chunk loop is entered only with the
\* preview's devices and the file's bases registered; and the step that fails
\* ends the call, no other step of it following.
C17_StepOrder ==
  [][/\ (pc # "idle" /\ pc' # "idle" /\ file_no' = file_no) =>
          /\ << pc, pc' >> \in StepOrder
          /\ error' = None
     /\ (pc # "idle" /\ (pc' = "idle" \/ file_no' # file_no)) =>
          \/ /\ pc = "chunk" /\ chunk_no > NumChunks(CurrentFile)
             /\ error' = None
             /\ log'[Len(log')].outcome = "done"
             /\ pc' \in {"header", "idle"}
          \/ /\ error' # None
             /\ log'[Len(log')].outcome = "failed"
             /\ pc' = "idle"
     /\ (pc = "idle" /\ pc' # "idle") => pc' = "header"
     /\ pc' \in {"chunk", "upsert"} =>
          /\ \A d \in PreviewDevices(File(csv_files'[file_no'])) : d \in DOMAIN devices'
          /\ \A i \in 1..Len(sensor_bases') :
               sensor_bases'[i] \in SensorNames(sensors')
          /\ sensor_bases' = find_sensor_bases(File(csv_files'[file_no']).cols)]_vars

\* a call that returned after two committed batches
C17_Witness ==
  /\ Len(log) >= 1
  /\ log[Len(log)].outcome = "done"
  /\ log[Len(log)].commits >= 2
  /\ error = None

\* C18: a call of insert_devices either commits every pair of the preview and
\* process_csv goes on to the sensors, or it raises "Insert devices failed" out
\* of process_csv with devices as before the call; a call of insert_sensors either
\* commits every base and process_csv goes on to the map, or it raises "Insert
\* sensors failed" with sensors as before the call; a raise ends the call of
\* process_csv before any chunk is read, measurements untouched.
C18_ReferenceWriteFatal ==
  [][/\ pc = "devices" =>
          \/ /\ pc' = "sensors"
             /\ error' = None
             /\ \A d \in PreviewDevices(CurrentFile) :
                  /\ d \in DOMAIN devices'
                  /\ << d, devices'[d] >> \in DevicePairs(CurrentFile)
          \/ /\ pc' = "idle"
             /\ error' = StoreError("Insert devices failed")
             /\ devices' = devices
     /\ pc = "sensors" =>
          \/ /\ pc' = "map"
             /\ error' = None
             /\ \A i \in 1..Len(sensor_bases) : sensor_bases[i] \in SensorNames(sensors')
          \/ /\ pc' = "idle"
             /\ error' = StoreError("Insert sensors failed")
             /\ sensors' = sensors
     /\ (pc \in {"devices", "sensors"} /\ error' # None) =>
          /\ log'[Len(log')].outcome = "failed"
          /\ log'[Len(log')].commits = 0
          /\ log'[Len(log')].after.measurements = log'[Len(log')].before.measurements
          /\ measurements' = measurements
          /\ chunk_no' = 0
          /\ out_rows' = << >>]_vars

\* insert_sensors failed after executing a row: the call of process_csv ended
\* with the sensors table as before, the counter moved, the devices it had
\* registered kept, and no batch
C18_Witness ==
  /\ pc = "idle"
  /\ error = StoreError("Insert sensors failed")
  /\ log[Len(log)].outcome = "failed"
  /\ log[Len(log)].after.sensors = log[Len(log)].before.sensors
  /\ log[Len(log)].after.sensors_auto > log[Len(log)].before.sensors_auto
  /\ log[Len(log)].after.devices # log[Len(log)].before.devices
  /\ log[Len(log)].commits = 0

\* the payloads the rows of the file give for the base: value_double, value_text,
\* status
Readings(file, base) ==
  [i \in 1..Len(file.rows) |->
     LET v  == try_float(CellOf(file.rows[i], Col(base, VALUE_SUFFIX), file.cols))
         st == CellOf(file.rows[i], Col(base, STATUS_SUFFIX), file.cols)
     IN  << v[1], v[2], status_str(st) >>]

\* per file and base, the readings of the rows
BasesOf(file) ==
  {find_sensor_bases(file.cols)[b] : b \in 1..Len(find_sensor_bases(file.cols))}
FileReadings ==
  [p \in Paths |-> [base \in BasesOf(File(p)) |-> Readings(File(p), base)]]

\* for each tuple of the batch, the places << row of the file, base of
\* sensor_bases >> that give that tuple: a row of the chunk whose time parses and
\* whose reading of the base is not empty
PlacesOf ==
  LET rows   == CurrentFile.rows
      first  == (chunk_no - 1) * CHUNK_SIZE + 1
      last   == Min(chunk_no * CHUNK_SIZE, Len(rows))
      places == {i \in first..last : TimeParses(rows[i])} \X (1..Len(sensor_bases))
      rd(o)  == FileReadings[CurrentPath][sensor_bases[o[2]]][o[1]]
  IN  [k \in 1..Len(out_rows) |->
         {o \in places :
            /\ rd(o) # << None, None, None >>
            /\ sensor_bases[o[2]] \in DOMAIN sensor_id_map
            /\ out_rows[k] = Tuple(StrOf(rows[o[1]].device_id),
                                   sensor_id_map[sensor_bases[o[2]]],
                                   TimeCell("dash", rows[o[1]].time.t),
                                   rd(o)[1], rd(o)[2], rd(o)[3])}]

\* place a comes before place b: by rows and then bases, or by bases and then rows
Before(by, a, b) ==
  IF by = "rows"
  THEN a[1] < b[1] \/ (a[1] = b[1] /\ a[2] < b[2])
  ELSE a[2] < b[2] \/ (a[2] = b[2] /\ a[1] < b[1])

\* the tuples from the k-th on can be given places of theirs, each after the
\* place of the tuple before it, the first after prev
RECURSIVE InOrder(_, _, _, _)
InOrder(k, prev, of, by) ==
  \/ k > Len(of)
  \/ \E o \in of[k] : Before(by, prev, o) /\ InOrder(k + 1, o, of, by)

\* the statement as given: the tuples of a batch go by rows in input order, and
\* for each row by base in sorted order
C19_RowsThenBases ==
  pc = "upsert" => InOrder(1, << 0, 0 >>, PlacesOf, "rows")

\* C19: the tuples of a batch go by sensor base in sorted order, and for each
\* base by rows in input order: all tuples of a base precede all tuples of the
\* next base.
C19_BasesThenRows ==
  pc = "upsert" => InOrder(1, << 0, 0 >>, PlacesOf, "bases")

\* a batch with tuples of two bases and of two rows
C19_Witness ==
  /\ pc = "upsert"
  /\ \E k, l \in 1..Len(out_rows) :
       /\ out_rows[k].sensor_id # out_rows[l].sensor_id
       /\ \/ out_rows[k].device_id # out_rows[l].device_id
          \/ out_rows[k].timestamp # out_rows[l].timestamp

\* row i has a time that parses and a reading, in rd, that is not empty
Reads(file, rd, i) ==
  /\ TimeParses(file.rows[i])
  /\ rd[i] # << None, None, None >>

\* rows i and j have a reading, in rd, for the same device at the same instant
SameInstant(file, rd, i, j) ==
  /\ Reads(file, rd, i) /\ Reads(file, rd, j)
  /\ StrOf(file.rows[i].device_id) = StrOf(file.rows[j].device_id)
  /\ file.rows[i].time.t = file.rows[j].time.t

\* the last row of the file that has a reading for the device and instant of
\* row i, 0 if row i has none
LastReading(file, rd, i) ==
  IF ~Reads(file, rd, i) THEN 0
  ELSE CHOOSE j \in i..Len(file.rows) :
         /\ SameInstant(file, rd, i, j)
         /\ \A k \in (j + 1)..Len(file.rows) : ~SameInstant(file, rd, i, k)

\* per file and base, for each row its last reading
FileLast ==
  [p \in Paths |-> [base \in BasesOf(File(p)) |->
     [i \in 1..Len(File(p).rows) |-> LastReading(File(p), FileReadings[p][base], i)]]]

\* C20: when process_csv has gone through all the chunks of a file, the row stored
\* for the device, base and instant of each row of the file that has a reading of
\* the base carries the payload of the last row of the file, in file order, that
\* has a reading of that base for that device and instant, be it of the same chunk
\* or of a later one.
C20_LastOccurrenceWins ==
  (pc = "chunk" /\ chunk_no > NumChunks(CurrentFile)) =>
    \A base \in BasesOf(CurrentFile) :
      \A i \in 1..Len(CurrentFile.rows) :
        FileLast[CurrentPath][base][i] # 0 =>
          \E r \in measurements :
            /\ r.device_id = StrOf(CurrentFile.rows[i].device_id)
            /\ r.sensor_id = sensor_id_map[base]
            /\ r.timestamp.t = CurrentFile.rows[i].time.t
            /\ << r.value_double, r.value_text, r.status >>
                 = FileReadings[CurrentPath][base][FileLast[CurrentPath][base][i]]

\* process_csv has gone through a file in which three rows read a base for one
\* device and instant with three payloads, the second in a later chunk than the
\* first and the third in the chunk of the second
C20_Witness ==
  /\ pc = "chunk"
  /\ chunk_no > NumChunks(CurrentFile)
  /\ \E base \in BasesOf(CurrentFile) :
       LET rd == FileReadings[CurrentPath][base]
       IN  \E i, j, k \in 1..Len(CurrentFile.rows) :
             /\ i < j /\ j < k
             /\ SameInstant(CurrentFile, rd, i, j)
             /\ SameInstant(CurrentFile, rd, j, k)
             /\ (i - 1) \div CHUNK_SIZE < (j - 1) \div CHUNK_SIZE
             /\ (j - 1) \div CHUNK_SIZE = (k - 1) \div CHUNK_SIZE
             /\ rd[i] # rd[k]
             /\ rd[j] # rd[k]

\* C21: in every reachable state no row of measurements has both value_double
\* and value_text: each stored row carries a number, a text, or neither.
C21_PayloadExclusive ==
  \A r \in measurements : r.value_double = None \/ r.value_text = None

\* a call of process_csv that returned left, under a key that held a number
\* before the call, a text and no number: the cell of the key changed from
\* numeric to text between two imports
C21_Witness ==
  \E n \in 1..Len(log) :
    /\ log[n].outcome = "done"
    /\ \E old \in log[n].before.measurements : \E new \in log[n].after.measurements :
         /\ SameKey(old, new)
         /\ old.value_double # None /\ old.value_text = None
         /\ new.value_text # None /\ new.value_double = None
    /\ log[n].after.measurements \subseteq measurements

====
